---- MODULE Spec2Model ----
(***************************************************************************)
(* Model of build.py of BRTrains2-Extended: the pipeline that checks the   *)
(* project structure, walks the source tree for *.pnml fragments, sorts    *)
(* them into tiers, resolves the special-order chains, pairs tender files  *)
(* with steam locomotives and writes one concatenated .nml artifact.       *)
(*                                                                         *)
(* A file is a record [dir, name]: dir is the sequence of directory names  *)
(* between the source root and the file, name is the file name.  A block   *)
(* of the internal nml buffer is a record [file, via, tier]: file is the   *)
(* fragment copied (its header line and its text), via and tier record     *)
(* which copy_file call of main appended it and during which tier.         *)
(***************************************************************************)
EXTENDS Integers, Sequences, FiniteSets, TLC

\* ------------------------------------------------------------------ tables

KeyFiles == << "grf.pnml", "railtypes.pnml", "sounds.pnml",
               "templates_shared.pnml", "templates_trains.pnml" >>

KeyFileNames == { KeyFiles[i] : i \in DOMAIN KeyFiles }

\* the two entries whose absence check_project_structure raises on
FatalKeyFiles == { "grf.pnml", "railtypes.pnml" }

SpecialOrderFiles ==
    ("BR_Mk3_TS.pnml" :> << "BR_Mk3_TSD.pnml", "BR43.pnml", "BR253.pnml",
                            "BR254.pnml", "BR256.pnml", "BR257.pnml" >>)
 @@ ("BR_Mk4_Header.pnml" :> << "BR_Mk4_DVT.pnml", "BR_Mk4_TF.pnml",
                            "BR_Mk4_TFE.pnml", "BR_Mk4_TRFB.pnml",
                            "BR_Mk4_TRSB.pnml", "BR_Mk4_TS.pnml",
                            "BR_Mk4_TSD.pnml", "BR_Mk4_TSE.pnml",
                            "BR91.pnml", "BR91_IC225.pnml" >>)
 @@ ("Containers_BR.pnml" :> << "BR_Conflat_A.pnml", "BR_Conflat_P.pnml" >>)
 @@ ("RCH_1907_graphics.pnml" :> << "1_Plank_Open_Wagons_Load.pnml",
                            "3_Plank_Open_Wagons_Load.pnml",
                            "5_Plank_Open_Wagons_Load.pnml",
                            "7_Plank_Open_Wagons_Load.pnml", "RCH_1907.pnml",
                            "RCH_1907_1_plank.pnml", "RCH_1907_3_plank.pnml",
                            "RCH_1907_5_plank.pnml", "RCH_1907_7_plank.pnml",
                            "RCH_1907_Van.pnml" >>)
 @@ ("60Long_Cont20_Side.pnml" :> << "60Long_Cont30_Side.pnml",
                            "60Long_Cont40_Side.pnml", "BR_FFA.pnml",
                            "BR_FEA.pnml" >>)
 @@ ("LMS_4F.pnml" :> << "MR_Tenders.pnml", "MR_3835.pnml",
                            "LMS_Fowler_2P.pnml", "LMS_Fowler_4P.pnml" >>)
 @@ ("Evol_Header.pnml" :> << "Evol_B.pnml", "Evol_F.pnml", "Evol_T.pnml" >>)

Triggers == DOMAIN SpecialOrderFiles

Followers == UNION { { SpecialOrderFiles[t][i] : i \in DOMAIN SpecialOrderFiles[t] }
                     : t \in Triggers }

\* mutant of TierKeys: the Normal tier listed before the Priority tier
TierKeys_normal_before_priority == << "Top level", "Normal", "Priority", "Append" >>

TierKeys == << "Top level", "Priority", "Normal", "Append" >>

\* ------------------------------------------------------- names and paths

\* file.stem.rsplit("_") of every file name the model's trees use
StemParts ==
    ("A.pnml" :> << "A" >>)
 @@ ("B.pnml" :> << "B" >>)
 @@ ("BR_Conflat_A.pnml" :> << "BR", "Conflat", "A" >>)
 @@ ("BR_Conflat_P.pnml" :> << "BR", "Conflat", "P" >>)
 @@ ("Containers_BR.pnml" :> << "Containers", "BR" >>)
 @@ ("GWR_King.pnml" :> << "GWR", "King" >>)
 @@ ("GWR_Tenders.pnml" :> << "GWR", "Tenders" >>)
 @@ ("LMS_4F.pnml" :> << "LMS", "4F" >>)
 @@ ("LMS_Fowler_2P.pnml" :> << "LMS", "Fowler", "2P" >>)
 @@ ("LMS_Fowler_4P.pnml" :> << "LMS", "Fowler", "4P" >>)
 @@ ("MR_1F.pnml" :> << "MR", "1F" >>)
 @@ ("MR_3835.pnml" :> << "MR", "3835" >>)
 @@ ("MR_Tenders.pnml" :> << "MR", "Tenders" >>)
 @@ ("grf.pnml" :> << "grf" >>)
 @@ ("railtypes.pnml" :> << "railtypes" >>)
 @@ ("sounds.pnml" :> << "sounds" >>)
 @@ ("templates_shared.pnml" :> << "templates", "shared" >>)
 @@ ("templates_trains.pnml" :> << "templates", "trains" >>)

\* the stem tokens of the model's names in which "Tenders" occurs
TendersTokens == { "Tenders" }

\* "Tenders" in file.stem
HasTenders(name) ==
    \E i \in DOMAIN StemParts[name] : StemParts[name][i] \in TendersTokens

\* file.stem.rsplit("_")[0]
CompanyName(name) == StemParts[name][1]

\* every path part of the model's trees, in ascending code-point order
\* (the order Python compares the strings of Path.parts in)
PartOrder == << "A.pnml", "B.pnml", "BR_Conflat_A.pnml", "BR_Conflat_P.pnml",
                "Containers_BR.pnml", "GWR_King.pnml", "GWR_Tenders.pnml",
                "LMS_4F.pnml", "LMS_Fowler_2P.pnml", "LMS_Fowler_4P.pnml",
                "Locomotive_Steam", "MR_1F.pnml", "MR_3835.pnml",
                "MR_Tenders.pnml", "Wagons", "append", "grf.pnml", "priority",
                "railtypes.pnml", "sounds.pnml", "templates_shared.pnml",
                "templates_trains.pnml" >>

Rank(s) == CHOOSE i \in DOMAIN PartOrder : PartOrder[i] = s

\* relative_path.parts
RelParts(f) == f.dir \o << f.name >>

\* list comparison of two parts sequences, as Path.__lt__ compares them
RECURSIVE PartsLess(_, _)
PartsLess(a, b) ==
    IF a = << >> THEN b # << >>
    ELSE IF b = << >> THEN FALSE
    ELSE IF Head(a) = Head(b) THEN PartsLess(Tail(a), Tail(b))
    ELSE Rank(Head(a)) < Rank(Head(b))

PathLess(f, g) == PartsLess(RelParts(f), RelParts(g))

Range(s) == { s[i] : i \in DOMAIN s }

File(d, n) == [dir |-> d, name |-> n]


\* mutant of SortedPaths: sorted(file_list, reverse=True)
RECURSIVE SortedPaths_descending(_)
SortedPaths_descending(S) ==
    IF S = {} THEN << >>
    ELSE LET m == CHOOSE f \in S : \A g \in S \ {f} : PathLess(g, f)
         IN  << m >> \o SortedPaths_descending(S \ {m})

\* sorted(file_list): the ascending sequence of a set of paths
RECURSIVE SortedPaths(_)
SortedPaths(S) ==
    IF S = {} THEN << >>
    ELSE LET m == CHOOSE f \in S : \A g \in S \ {f} : PathLess(f, g)
         IN  << m >> \o SortedPaths(S \ {m})

EmptyMap == [x \in {} |-> x]

\* d[k] = v on a dict
MapPut(d, k, v) == [x \in DOMAIN d \cup {k} |-> IF x = k THEN v ELSE d[x]]

\* d.pop(k): the dict without k
MapDrop(d, k) == [x \in DOMAIN d \ {k} |-> d[x]]

\* ---------------------------------------------------------------- bounds

\* how many times the tool is run over the same tree
MaxRuns == 2

\* how many fragments of a tree may be unreadable
MaxUnreadable == 1

\* ----------------------------------------------------------------- state

VARIABLES
    dirs,           \* file system: the directories that exist in the cwd
    tree,           \* file system: the *.pnml files under the directory "src"
    unreadable,     \* file system: the files of tree that open() fails on
    artifact,       \* file system: the text of build/<grf_name>.nml
    args,           \* the parsed command line handed to main
    run,            \* which invocation of the tool this is
    pc,             \* where main is
    err,            \* the exception that ended main, or "none"
    src_directory, lang_directory, gfx_directory,
    has_lang_dir,
    nml_file,       \* the internal nml buffer, a sequence of blocks
    pnml_files,     \* tier key -> the files appended to that tier's list
    tender_files,   \* company name -> tender file
    special_files,  \* trigger name -> resolved chain
    in_chain,       \* names of chain followers seen so far
    scanned,        \* the files rglob has yielded so far
    tier_i,         \* index in TierKeys of the tier being emitted (0: none)
    todo,           \* what is left of sorted(file_list) of that tier
    compiled        \* the parameters nml.main.main was called with

vars == << dirs, tree, unreadable, artifact, args, run, pc, err,
           src_directory, lang_directory, gfx_directory, has_lang_dir,
           nml_file, pnml_files, tender_files, special_files, in_chain,
           scanned, tier_i, todo, compiled >>

env == << dirs, tree, unreadable, args >>

\* build/<grf_name>.nml: absent, or left by an earlier build of another tree
NoArtifact == [exists |-> FALSE, text |-> << >>]
StaleArtifact == [exists |-> TRUE, text |-> << [dir |-> << >>, name |-> "grf.pnml"] >>]

NotCompiled == [called |-> FALSE, parameters |-> << >>]

EmptyTiers == [k \in Range(TierKeys) |-> {}]

\* -------------------------------------------------------- the trees used

KeyPaths == { File(<< >>, k) : k \in KeyFileNames }

\* wagons and a chain whose trigger lies in two places and one of whose
\* followers lies in two places
TreeFilesA ==
    { File(<< >>, "Containers_BR.pnml"),
      File(<< "Wagons" >>, "Containers_BR.pnml"),
      File(<< "Wagons" >>, "BR_Conflat_A.pnml"),
      File(<< "append" >>, "BR_Conflat_A.pnml"),
      File(<< "Wagons" >>, "BR_Conflat_P.pnml"),
      File(<< "Wagons" >>, "A.pnml"),
      File(<< "Wagons" >>, "B.pnml") }

\* tender files in three places, a steam locomotive and plain fragments
TreeFilesT ==
    { File(<< "priority" >>, "GWR_Tenders.pnml"),
      File(<< "Locomotive_Steam" >>, "GWR_Tenders.pnml"),
      File(<< "Wagons" >>, "GWR_Tenders.pnml"),
      File(<< "Locomotive_Steam" >>, "GWR_King.pnml"),
      File(<< "Wagons" >>, "A.pnml"),
      File(<< "append" >>, "B.pnml") }

\* the chain of LMS_4F.pnml, one of whose followers is a tender file
TreeFilesB ==
    { File(<< "Locomotive_Steam" >>, "LMS_4F.pnml"),
      File(<< "Locomotive_Steam" >>, "MR_Tenders.pnml"),
      File(<< "Locomotive_Steam" >>, "MR_3835.pnml"),
      File(<< "Locomotive_Steam" >>, "LMS_Fowler_2P.pnml"),
      File(<< "Locomotive_Steam" >>, "LMS_Fowler_4P.pnml"),
      File(<< "Locomotive_Steam" >>, "MR_1F.pnml") }

\* files that bear a key file's name outside the source root
TreeFilesK ==
    { File(<< "priority" >>, "sounds.pnml"),
      File(<< "Wagons" >>, "sounds.pnml"),
      File(<< "append" >>, "grf.pnml"),
      File(<< "Wagons" >>, "A.pnml") }

\* a small tree for the runs whose environment or arguments vary
TreeFilesC ==
    { File(<< "Wagons" >>, "A.pnml"),
      File(<< "Locomotive_Steam" >>, "GWR_Tenders.pnml"),
      File(<< "Locomotive_Steam" >>, "GWR_King.pnml") }

StdDirs == { "src", "gfx", "lang" }

DefaultArgs == [src_dir |-> "src", lang_dir |-> "lang", gfx_dir |-> "gfx",
                b_compile_grf |-> FALSE]

ArgSets == [src_dir : { "src", "mysrc" }, lang_dir : { "lang", "mylang" },
            gfx_dir : { "gfx", "mygfx" }, b_compile_grf : BOOLEAN]

\* ------------------------------------------------------------------ Init

InitProgram ==
    /\ run = 1
    /\ pc = "start"
    /\ err = "none"
    /\ src_directory = ""
    /\ lang_directory = ""
    /\ gfx_directory = ""
    /\ has_lang_dir = FALSE
    /\ nml_file = << >>
    /\ pnml_files = EmptyTiers
    /\ tender_files = EmptyMap
    /\ special_files = EmptyMap
    /\ in_chain = {}
    /\ scanned = {}
    /\ tier_i = 0
    /\ todo = << >>
    /\ compiled = NotCompiled

\* a complete project, any tree of wagons, chains and tenders
InitTrees ==
    /\ dirs = StdDirs
    /\ \E t \in SUBSET TreeFilesA \cup SUBSET TreeFilesT \cup SUBSET TreeFilesB
                 \cup SUBSET TreeFilesK :
         tree = KeyPaths \cup t
    /\ unreadable = {}
    /\ artifact = NoArtifact
    /\ args = DefaultArgs

\* any combination of missing directories and missing key files
InitStructure ==
    /\ dirs \in SUBSET StdDirs
    /\ \E k \in SUBSET KeyPaths : tree \in { k, k \cup TreeFilesC }
    /\ unreadable = {}
    /\ artifact \in { NoArtifact, StaleArtifact }
    /\ args = DefaultArgs

\* a complete project with directory overrides on the command line
InitArgs ==
    /\ dirs = StdDirs \cup { "mysrc", "mylang", "mygfx" }
    /\ tree = KeyPaths \cup TreeFilesC
    /\ unreadable = {}
    /\ artifact = NoArtifact
    /\ args \in ArgSets

\* a complete project some file of which cannot be read, or whose chain
\* does not resolve, with an artifact of an earlier build in place
InitUnreadable ==
    /\ dirs = StdDirs
    /\ \E t \in SUBSET TreeFilesB : tree = KeyPaths \cup t
    /\ unreadable \in { u \in SUBSET tree : Cardinality(u) <= MaxUnreadable }
    /\ artifact = StaleArtifact
    /\ args = DefaultArgs

Init ==
    /\ InitProgram
    /\ \/ InitTrees
       \/ InitStructure
       \/ InitArgs
       \/ InitUnreadable


\* --------------------------------------------------------------- helpers

\* the *.pnml files under a directory of the cwd; the model keeps the
\* content of "src" only and takes every other directory to hold none
FilesUnder(d) == IF d = "src" THEN tree ELSE {}

\* file.parts of a file found under src_directory
FileParts(f) == << src_directory >> \o RelParts(f)

Ok(buf) == [err |-> "none", nml |-> buf]

\* copy_file: the buffer with the block of filepath appended, or the
\* exception raised
copy_file(filepath, buf, via, tier) ==
    IF filepath \notin FilesUnder(src_directory)
    THEN [err |-> "FileDoesNotExist", nml |-> buf]
    ELSE IF filepath \in unreadable
    THEN [err |-> "Unreadable", nml |-> buf]
    ELSE Ok(Append(buf, [file |-> filepath, via |-> via, tier |-> tier]))

\* a loop of copy_file calls over a sequence of files; the first exception
\* ends it
RECURSIVE copy_files(_, _, _, _)
copy_files(files, buf, via, tier) ==
    IF files = << >> THEN Ok(buf)
    ELSE LET r == copy_file(Head(files), buf, via, tier)
         IN  IF r.err # "none" THEN r
             ELSE copy_files(Tail(files), r.nml, via, tier)

\* check_project_structure: has_lang_dir, or the exception raised
check_project_structure(src, gfx, lang) ==
    IF src \notin dirs THEN [err |-> "MissingDirectory", has_lang_dir |-> TRUE]
    ELSE IF gfx \notin dirs THEN [err |-> "MissingDirectory", has_lang_dir |-> TRUE]
    ELSE IF \E k \in FatalKeyFiles : File(<< >>, k) \notin FilesUnder(src)
    THEN [err |-> "MissingRequiredFragment", has_lang_dir |-> lang \in dirs]
    ELSE [err |-> "none", has_lang_dir |-> lang \in dirs]

\* mutant of find_special_file: matches[0] without the check for several
find_special_file_first_match(filename) ==
    LET matches == { g \in FilesUnder(src_directory) : g.name = filename }
    IN  IF matches = {} THEN [err |-> "UnresolvedChainMember", path |-> File(<< >>, filename)]
        ELSE [err |-> "none", path |-> CHOOSE g \in matches : TRUE]

\* find_special_file: the one file of that name under the source
\* directory, or the exception raised
find_special_file(filename) ==
    LET matches == { g \in FilesUnder(src_directory) : g.name = filename }
    IN  IF matches = {} THEN [err |-> "UnresolvedChainMember", path |-> File(<< >>, filename)]
        ELSE IF Cardinality(matches) > 1
        THEN [err |-> "AmbiguousChainMember", path |-> File(<< >>, filename)]
        ELSE [err |-> "none", path |-> CHOOSE g \in matches : TRUE]

\* the loop over a trigger's chain: every follower name is added to
\* in_chain and resolved, in declared order, until one fails
RECURSIVE resolve_chain(_, _, _)
resolve_chain(chain, marked, file_chain) ==
    IF chain = << >>
    THEN [err |-> "none", in_chain |-> marked, file_chain |-> file_chain]
    ELSE LET r == find_special_file(Head(chain))
         IN  IF r.err # "none"
             THEN [err |-> r.err, in_chain |-> marked \cup { Head(chain) },
                   file_chain |-> file_chain]
             ELSE resolve_chain(Tail(chain), marked \cup { Head(chain) },
                                Append(file_chain, r.path))

\* mutant of classify: len(relative_path.parts) <= 2 for the top level
classify_top_level_off_by_one(f, inchain) ==
    IF Len(RelParts(f)) <= 2
    THEN IF f.name \notin KeyFileNames THEN "Top level" ELSE "nowhere"
    ELSE IF "priority" \in Range(RelParts(f)) THEN "Priority"
    ELSE IF "append" \in Range(RelParts(f)) THEN "Append"
    ELSE IF HasTenders(f.name) THEN "tender"
    ELSE IF f.name \notin KeyFileNames /\ f.name \notin inchain THEN "Normal"
    ELSE "nowhere"

\* where the scan puts a file: a tier key, "tender" or "nowhere"
classify(f, inchain) ==
    IF Len(RelParts(f)) = 1
    THEN IF f.name \notin KeyFileNames THEN "Top level" ELSE "nowhere"
    ELSE IF "priority" \in Range(RelParts(f)) THEN "Priority"
    ELSE IF "append" \in Range(RelParts(f)) THEN "Append"
    ELSE IF HasTenders(f.name) THEN "tender"
    ELSE IF f.name \notin KeyFileNames /\ f.name \notin inchain THEN "Normal"
    ELSE "nowhere"

IsPrefix(d, e) == Len(d) <= Len(e) /\ SubSeq(e, 1, Len(d)) = d

\* rglob walks the tree top down: the files of a directory come before
\* those of its subdirectories, a subdirectory is finished before the next
\* is entered, and the order within a directory is the file system's
rglob_next(f) ==
    LET all == FilesUnder(src_directory)
        ds == UNION { { SubSeq(g.dir, 1, k) : k \in 0..Len(g.dir) } : g \in all }
        under(d) == { g \in all : IsPrefix(d, g.dir) }
    IN  /\ f \in all \ scanned
        /\ \A d \in ds :
             /\ (IsPrefix(d, f.dir) /\ d # f.dir)
                    => { g \in all : g.dir = d } \subseteq scanned
             /\ (under(d) \cap scanned # {} /\ ~(under(d) \subseteq scanned))
                    => IsPrefix(d, f.dir)

\* mutant of emit_file: the tender copied after the file, not before it
emit_file_tender_after(file, buf, tenders, tier) ==
    IF file.name \in in_chain
    THEN [err |-> "none", nml |-> buf, tender_files |-> tenders]
    ELSE LET cn == CompanyName(file.name)
             pops == "Locomotive_Steam" \in Range(FileParts(file))
                     /\ cn \in DOMAIN tenders
             t1 == copy_file(file, buf, "tier", tier)
             left == IF pops THEN MapDrop(tenders, cn) ELSE tenders
             t2 == IF pops THEN copy_file(tenders[cn], t1.nml, "tender", tier)
                   ELSE Ok(t1.nml)
             chain == IF file.name \in Triggers /\ file.name \in DOMAIN special_files
                      THEN special_files[file.name] ELSE << >>
             t3 == copy_files(chain, t2.nml, "chain", tier)
         IN  IF t1.err # "none"
             THEN [err |-> t1.err, nml |-> t1.nml, tender_files |-> left]
             ELSE IF t2.err # "none"
             THEN [err |-> t2.err, nml |-> t2.nml, tender_files |-> left]
             ELSE [err |-> t3.err, nml |-> t3.nml, tender_files |-> left]

\* one pass of the loop over sorted(file_list): the tender, the file and
\* its chain, or nothing for a chain follower
emit_file(file, buf, tenders, tier) ==
    IF file.name \in in_chain
    THEN [err |-> "none", nml |-> buf, tender_files |-> tenders]
    ELSE LET cn == CompanyName(file.name)
             pops == "Locomotive_Steam" \in Range(FileParts(file))
                     /\ cn \in DOMAIN tenders
             t1 == IF pops THEN copy_file(tenders[cn], buf, "tender", tier)
                   ELSE Ok(buf)
             left == IF pops THEN MapDrop(tenders, cn) ELSE tenders
             t2 == copy_file(file, t1.nml, "tier", tier)
             chain == IF file.name \in Triggers /\ file.name \in DOMAIN special_files
                      THEN special_files[file.name] ELSE << >>
             t3 == copy_files(chain, t2.nml, "chain", tier)
         IN  IF t1.err # "none"
             THEN [err |-> t1.err, nml |-> t1.nml, tender_files |-> left]
             ELSE IF t2.err # "none"
             THEN [err |-> t2.err, nml |-> t2.nml, tender_files |-> left]
             ELSE [err |-> t3.err, nml |-> t3.nml, tender_files |-> left]

\* the text write_file writes: the blocks' files in order
Text(buf) == [i \in DOMAIN buf |-> buf[i].file]

\* --------------------------------------------------------------- actions

\* main, up to the call of check_project_structure
Start ==
    /\ pc = "start"
    /\ src_directory' = "src"
    /\ lang_directory' = "lang"
    /\ gfx_directory' = "gfx"
    /\ nml_file' = << >>
    /\ has_lang_dir' = FALSE
    /\ pc' = "check"
    /\ UNCHANGED << env, artifact, run, err, pnml_files, tender_files,
                    special_files, in_chain, scanned, tier_i, todo, compiled >>

\* has_lang_dir = check_project_structure(...)
CheckStructure ==
    /\ pc = "check"
    /\ LET r == check_project_structure(src_directory, gfx_directory, lang_directory)
       IN  /\ err' = r.err
           /\ pc' = IF r.err = "none" THEN "keys" ELSE "aborted"
           /\ has_lang_dir' = IF r.err = "none" THEN r.has_lang_dir ELSE has_lang_dir
    /\ UNCHANGED << env, artifact, run, src_directory, lang_directory,
                    gfx_directory, nml_file, pnml_files, tender_files,
                    special_files, in_chain, scanned, tier_i, todo, compiled >>

\* for files in KeyFiles.keys(): nml_file = copy_file(...), then the
\* empty collections of the scan
CopyKeyFiles ==
    /\ pc = "keys"
    /\ LET keys == [i \in DOMAIN KeyFiles |-> File(<< >>, KeyFiles[i])]
           r == copy_files(keys, nml_file, "key", "Key")
       IN  /\ err' = r.err
           /\ pc' = IF r.err = "none" THEN "scan" ELSE "aborted"
           /\ nml_file' = r.nml
    /\ pnml_files' = EmptyTiers
    /\ tender_files' = EmptyMap
    /\ special_files' = EmptyMap
    /\ in_chain' = {}
    /\ scanned' = {}
    /\ UNCHANGED << env, artifact, run, src_directory, lang_directory,
                    gfx_directory, has_lang_dir, tier_i, todo, compiled >>

\* one pass of the loop over src_directory.rglob("*.pnml")
ScanFile ==
    /\ pc = "scan"
    /\ \E file \in FilesUnder(src_directory) :
         /\ rglob_next(file)
         /\ scanned' = scanned \cup { file }
         /\ LET resolves == file.name \in Triggers /\ file.name \notin in_chain
                r == IF resolves
                     THEN resolve_chain(SpecialOrderFiles[file.name], in_chain, << >>)
                     ELSE [err |-> "none", in_chain |-> in_chain, file_chain |-> << >>]
                where == classify(file, r.in_chain)
            IN  /\ in_chain' = r.in_chain
                /\ err' = r.err
                /\ IF r.err # "none"
                   THEN /\ pc' = "aborted"
                        /\ UNCHANGED << special_files, pnml_files, tender_files >>
                   ELSE /\ pc' = "scan"
                        /\ special_files' =
                             IF resolves
                             THEN MapPut(special_files, file.name, r.file_chain)
                             ELSE special_files
                        /\ pnml_files' =
                             IF where \in Range(TierKeys)
                             THEN [pnml_files EXCEPT ![where] = @ \cup { file }]
                             ELSE pnml_files
                        /\ tender_files' =
                             IF where = "tender"
                             THEN MapPut(tender_files, CompanyName(file.name), file)
                             ELSE tender_files
    /\ UNCHANGED << env, artifact, run, src_directory, lang_directory,
                    gfx_directory, has_lang_dir, nml_file, tier_i, todo, compiled >>

\* the walk is over: the listing of the directories, then the loop over
\* pnml_files.items() starts
ScanDone ==
    /\ pc = "scan"
    /\ scanned = FilesUnder(src_directory)
    /\ pc' = "emit"
    /\ tier_i' = 0
    /\ todo' = << >>
    /\ UNCHANGED << env, artifact, run, err, src_directory, lang_directory,
                    gfx_directory, has_lang_dir, nml_file, pnml_files,
                    tender_files, special_files, in_chain, scanned, compiled >>

\* for key, file_list in pnml_files.items(): the next tier, sorted
EnterTier ==
    /\ pc = "emit"
    /\ todo = << >>
    /\ tier_i < Len(TierKeys)
    /\ tier_i' = tier_i + 1
    /\ todo' = SortedPaths(pnml_files[TierKeys[tier_i + 1]])
    /\ UNCHANGED << env, artifact, run, pc, err, src_directory, lang_directory,
                    gfx_directory, has_lang_dir, nml_file, pnml_files,
                    tender_files, special_files, in_chain, scanned, compiled >>

\* for file in sorted(file_list): one pass
EmitFile ==
    /\ pc = "emit"
    /\ todo # << >>
    /\ LET r == emit_file(Head(todo), nml_file, tender_files, TierKeys[tier_i])
       IN  /\ err' = r.err
           /\ pc' = IF r.err = "none" THEN "emit" ELSE "aborted"
           /\ nml_file' = r.nml
           /\ tender_files' = r.tender_files
    /\ todo' = Tail(todo)
    /\ UNCHANGED << env, artifact, run, src_directory, lang_directory,
                    gfx_directory, has_lang_dir, pnml_files, special_files,
                    in_chain, scanned, tier_i, compiled >>

\* mutant of WriteFile: write_file called inside the loop over the tiers
WriteFile_inside_loop ==
    /\ pc = "emit"
    /\ todo = << >>
    /\ tier_i >= 1
    /\ artifact' = [exists |-> TRUE, text |-> Text(nml_file)]
    /\ pc' = IF tier_i = Len(TierKeys)
             THEN (IF args.b_compile_grf THEN "compile" ELSE "done")
             ELSE "emit"
    /\ UNCHANGED << env, run, err, src_directory, lang_directory,
                    gfx_directory, has_lang_dir, nml_file, pnml_files,
                    tender_files, special_files, in_chain, scanned, tier_i,
                    todo, compiled >>

\* write_file(grf_name, nml_file)
WriteFile ==
    /\ pc = "emit"
    /\ todo = << >>
    /\ tier_i = Len(TierKeys)
    /\ artifact' = [exists |-> TRUE, text |-> Text(nml_file)]
    /\ pc' = IF args.b_compile_grf THEN "compile" ELSE "done"
    /\ UNCHANGED << env, run, err, src_directory, lang_directory,
                    gfx_directory, has_lang_dir, nml_file, pnml_files,
                    tender_files, special_files, in_chain, scanned, tier_i,
                    todo, compiled >>

\* compile_grf(has_lang_dir, grf_name, lang_directory); the nml package
\* may or may not be installed
CompileGrf ==
    /\ pc = "compile"
    /\ \E found_nml \in BOOLEAN :
         compiled' =
            IF ~found_nml THEN NotCompiled
            ELSE [called |-> TRUE,
                  parameters |-> IF has_lang_dir
                                 THEN << "--lang", lang_directory, "build/grf_name.nml" >>
                                 ELSE << "build/grf_name.nml" >>]
    /\ pc' = "done"
    /\ UNCHANGED << env, artifact, run, err, src_directory, lang_directory,
                    gfx_directory, has_lang_dir, nml_file, pnml_files,
                    tender_files, special_files, in_chain, scanned, tier_i, todo >>

\* the tool is run again over the same tree and with the same arguments
RunAgain ==
    /\ pc \in { "done", "aborted" }
    /\ run < MaxRuns
    /\ run' = run + 1
    /\ pc' = "start"
    /\ err' = "none"
    /\ src_directory' = ""
    /\ lang_directory' = ""
    /\ gfx_directory' = ""
    /\ has_lang_dir' = FALSE
    /\ nml_file' = << >>
    /\ pnml_files' = EmptyTiers
    /\ tender_files' = EmptyMap
    /\ special_files' = EmptyMap
    /\ in_chain' = {}
    /\ scanned' = {}
    /\ tier_i' = 0
    /\ todo' = << >>
    /\ compiled' = NotCompiled
    /\ UNCHANGED << env, artifact >>

Next ==
    \/ Start
    \/ CheckStructure
    \/ CopyKeyFiles
    \/ ScanFile
    \/ ScanDone
    \/ EnterTier
    \/ EmitFile
    \/ WriteFile
    \/ CompileGrf
    \/ RunAgain

Spec == Init /\ [][Next]_vars


\* ------------------------------------------------------ claims: vocabulary

\* main has written the artifact: the run is a successful one
Succeeded == pc \in { "compile", "done" }

\* the indices of the blocks of a file in the buffer
Positions(f) == { i \in DOMAIN nml_file : nml_file[i].file = f }

\* the files of the tree that bear a trigger's name
TriggerFiles == { f \in tree : f.name \in Triggers }

FollowerNames(t) == Range(SpecialOrderFiles[t])

\* ---------------------------------------------------------------------- C1
\* C1 (as claimed): in a successful run, for every file T of the tree that
\* bears a trigger's name, the buffer holds T's block immediately followed
\* by the blocks of its declared followers in declared order, and no block
\* of a file bearing a follower's name stands anywhere else in the buffer.
C1_ChainOnlyAfterTrigger ==
    Succeeded =>
      \A T \in TriggerFiles :
        LET chain == SpecialOrderFiles[T.name]
        IN  \E i \in Positions(T) :
              /\ i + Len(chain) <= Len(nml_file)
              /\ \A k \in DOMAIN chain : nml_file[i + k].file.name = chain[k]
              /\ \A j \in DOMAIN nml_file :
                   nml_file[j].file.name \in FollowerNames(T.name)
                     => j \in (i + 1)..(i + Len(chain))


\* ---------------------------------------------------------------------- C2
\* C2 (as claimed): with the source and graphics directories and grf.pnml
\* and railtypes.pnml in place, the absence of another key file never ends
\* the run; and over a tree of grf.pnml and railtypes.pnml alone the run,
\* once over, has succeeded with exactly those two blocks in that order.
C2_MissingOptionalKeyFileOnlyWarns ==
    LET structure_ok ==
            /\ { "src", "gfx" } \subseteq dirs
            /\ \A k \in FatalKeyFiles : File(<< >>, k) \in tree
        two == { File(<< >>, k) : k \in FatalKeyFiles }
    IN  structure_ok =>
          /\ ~(pc = "aborted" /\ err = "FileDoesNotExist")
          /\ (tree = two /\ pc \in { "aborted", "done" })
                => /\ pc = "done"
                   /\ Text(nml_file) = << File(<< >>, "grf.pnml"),
                                          File(<< >>, "railtypes.pnml") >>

\* ---------------------------------------------------------------------- C3
\* the files the scan registers as tenders
IsRegisteredTender(f) == classify(f, {}) = "tender"

\* C3 (as claimed): in a successful run every block of a file whose stem
\* contains "Tenders" is immediately followed by the block of a fragment
\* under Locomotive_Steam whose stem has the same prefix.
C3_EveryTenderBeforeItsEngine ==
    Succeeded =>
      \A i \in DOMAIN nml_file :
        HasTenders(nml_file[i].file.name) =>
          /\ i < Len(nml_file)
          /\ "Locomotive_Steam" \in Range(nml_file[i + 1].file.dir)
          /\ CompanyName(nml_file[i + 1].file.name)
               = CompanyName(nml_file[i].file.name)

\* C3 (amended): in a successful run, a block copied by the tender step is
\* the block of a file the scan registered as a tender (stem contains
\* "Tenders", not directly under the source root, no "priority" or "append"
\* path segment), no file has two such blocks, and the block is immediately
\* followed by the block, copied by the tier loop, of a fragment with
\* Locomotive_Steam in its path whose stem has the same prefix; a
\* registered tender has no other block but as a chain follower copied
\* after its trigger.
C3_TenderStepBeforeEngine ==
    Succeeded =>
      /\ \A i \in DOMAIN nml_file :
           nml_file[i].via = "tender" =>
             /\ IsRegisteredTender(nml_file[i].file)
             /\ i < Len(nml_file)
             /\ nml_file[i + 1].via = "tier"
             /\ "Locomotive_Steam" \in Range(nml_file[i + 1].file.dir)
             /\ CompanyName(nml_file[i + 1].file.name)
                  = CompanyName(nml_file[i].file.name)
             /\ \A j \in DOMAIN nml_file :
                  (nml_file[j].via = "tender" /\ nml_file[j].file = nml_file[i].file)
                     => j = i
      /\ \A i \in DOMAIN nml_file :
           IsRegisteredTender(nml_file[i].file) =>
             \/ nml_file[i].via = "tender"
             \/ /\ nml_file[i].via = "chain"
                /\ nml_file[i].file.name \in Followers

\* C3 witness: a successful run that copied a tender before its engine
C3_Witness ==
    /\ Succeeded
    /\ \E i \in DOMAIN nml_file : nml_file[i].via = "tender"


\* ---------------------------------------------------------------------- C4
\* the place of a section of the output: the key files, then the tiers
SectionRank(k) ==
    CASE k = "Key" -> 0
      [] k = "Top level" -> 1
      [] k = "Priority" -> 2
      [] k = "Normal" -> 3
      [] k = "Append" -> 4

\* the tiers whose list the scan appended a file to
PlacedIn(f) == { k \in Range(TierKeys) : f \in pnml_files[k] }

\* C4 (as claimed): in a successful run the key files' blocks come first,
\* and no block of a fragment the scan placed in a later tier precedes a
\* block of a fragment it placed in an earlier tier.
C4_NoBlockOfLaterTierFirst ==
    Succeeded =>
      /\ \A i \in DOMAIN nml_file : (nml_file[i].via = "key") <=> (i <= Len(KeyFiles))
      /\ \A i, j \in DOMAIN nml_file :
           i < j =>
             \A a \in PlacedIn(nml_file[i].file), b \in PlacedIn(nml_file[j].file) :
               SectionRank(a) <= SectionRank(b)

\* C4 (amended): in a successful run the key files' blocks come first and
\* the sections of the tiers follow in the order Top level, Priority,
\* Normal, Append; every block the tier loop copies of itself stands in
\* the section of the tier the scan placed its file in, and a fragment
\* placed in a tier whose name is not that of a follower in a resolved
\* chain has exactly one block, that one.  (A chain follower is copied
\* after its trigger, in the trigger's section, whichever tier's list the
\* scan appended it to.)
C4_TierSectionsInOrder ==
    Succeeded =>
      /\ \A i \in DOMAIN nml_file : (nml_file[i].via = "key") <=> (i <= Len(KeyFiles))
      /\ \A i, j \in DOMAIN nml_file :
           i < j => SectionRank(nml_file[i].tier) <= SectionRank(nml_file[j].tier)
      /\ \A i \in DOMAIN nml_file :
           nml_file[i].via = "tier" => PlacedIn(nml_file[i].file) = { nml_file[i].tier }
      /\ \A k \in Range(TierKeys) : \A f \in pnml_files[k] :
           f.name \notin in_chain =>
             /\ Cardinality(Positions(f)) = 1
             /\ \A i \in Positions(f) : nml_file[i].via = "tier" /\ nml_file[i].tier = k

\* C4 witness: a successful run with blocks in three sections, one of them
\* the block of a chain follower whose file the scan had placed in Append
C4_Witness ==
    /\ Succeeded
    /\ Cardinality({ nml_file[i].tier : i \in DOMAIN nml_file }) >= 3
    /\ \E i \in DOMAIN nml_file :
         /\ nml_file[i].via = "chain"
         /\ PlacedIn(nml_file[i].file) = { "Append" }

\* ---------------------------------------------------------------------- C5
\* C5 (as claimed): a second run over the same tree assembles the text the
\* first run wrote, whatever order the walks yield the files in.
C5_SecondRunSameText ==
    (run > 1 /\ pc = "emit" /\ todo = << >> /\ tier_i = Len(TierKeys))
       => Text(nml_file) = artifact.text


\* ---------------------------------------------------------------------- C6
\* a fragment no special rule applies to
IsPlain(f) ==
    /\ f.name \notin KeyFileNames
    /\ f.name \notin Triggers
    /\ f.name \notin Followers
    /\ Len(f.dir) >= 1
    /\ "priority" \notin Range(f.dir)
    /\ "append" \notin Range(f.dir)
    /\ ~HasTenders(f.name)

\* C6: in a successful run every fragment of the tree that no special rule
\* applies to has exactly one block; the tier loop copied it in the Normal
\* section, and among the blocks the loop copied there it stands where the
\* order of the paths puts it.
C6_PlainFragmentOnceInNormal ==
    Succeeded =>
      \A f \in { g \in tree : IsPlain(g) } :
        /\ Cardinality(Positions(f)) = 1
        /\ \A i \in Positions(f) :
             /\ nml_file[i].via = "tier"
             /\ nml_file[i].tier = "Normal"
             /\ \A j \in DOMAIN nml_file :
                  (j # i /\ nml_file[j].via = "tier" /\ nml_file[j].tier = "Normal")
                     => (j < i <=> PathLess(nml_file[j].file, f))

\* C6 witness: a successful run over a tree with two plain fragments and a
\* trigger beside them in the Normal tier
C6_Witness ==
    /\ Succeeded
    /\ Cardinality({ g \in tree : IsPlain(g) }) >= 2
    /\ \E i \in DOMAIN nml_file :
         /\ nml_file[i].via = "tier"
         /\ nml_file[i].tier = "Normal"
         /\ nml_file[i].file.name \in Triggers

\* ---------------------------------------------------------------------- C7
\* the checks of check_project_structure pass in this file system
StructureOk ==
    /\ { "src", "gfx" } \subseteq dirs
    /\ \A k \in FatalKeyFiles : File(<< >>, k) \in tree

\* C7: the artifact changes only in the step that follows the last pass of
\* the last tier's loop, with the whole tree scanned and no exception
\* raised, and that step ends the run's work on the buffer; a run that ends
\* in an exception leaves the artifact as it found it; and no file is
\* scanned unless the directories and the two fatal key files are there.
C7_WriteOnlyAfterFullAssembly ==
    [][ /\ (artifact' # artifact) =>
              /\ pc = "emit" /\ pc' \in { "compile", "done" }
              /\ todo = << >> /\ tier_i = Len(TierKeys)
              /\ scanned = tree
              /\ err = "none"
              /\ artifact' = [exists |-> TRUE, text |-> Text(nml_file)]
        /\ (pc' = "aborted") => (artifact' = artifact /\ pc \notin { "compile", "done" })
        /\ (pc = "aborted") => (artifact' = artifact)
        /\ (scanned' # {}) => StructureOk
      ]_vars

\* C7 witness: a run that an unreadable fragment ended midway through the
\* tiers, its buffer part filled, the artifact of an earlier build untouched
C7_Witness ==
    /\ pc = "aborted"
    /\ err = "Unreadable"
    /\ tier_i >= 1
    /\ Len(nml_file) > Len(KeyFiles)
    /\ artifact = StaleArtifact

\* ---------------------------------------------------------------------- C8
\* the files of the tree that bear a name
Named(n) == { g \in tree : g.name = n }

\* a trigger in the tree one of whose followers no file, or more than one
\* file, is named after
HasUnresolved == \E T \in TriggerFiles : \E n \in FollowerNames(T.name) : Named(n) = {}
HasAmbiguous ==
    \E T \in TriggerFiles : \E n \in FollowerNames(T.name) : Cardinality(Named(n)) > 1

\* every key file is there and can be read, so that the scan is reached
KeysOk == \A k \in KeyFileNames : File(<< >>, k) \in tree \ unreadable

\* C8: a run over a tree that holds a trigger with a follower name that
\* matches no file or several files never gets past the scan: once it is
\* over (the structure and the key files being in order) it has ended in
\* UnresolvedChainMember or AmbiguousChainMember, and in that one only if a
\* trigger of the tree has such a follower; and past the scan, the chain
\* recorded for every trigger of the tree is the one file of each
\* follower's name, in declared order.
C8_ChainMembersUnique ==
    /\ (HasUnresolved \/ HasAmbiguous) =>
         /\ pc \notin { "emit", "compile", "done" }
         /\ (pc = "aborted" /\ StructureOk /\ KeysOk)
               => err \in { "UnresolvedChainMember", "AmbiguousChainMember" }
    /\ (pc = "aborted" /\ err = "UnresolvedChainMember") => HasUnresolved
    /\ (pc = "aborted" /\ err = "AmbiguousChainMember") => HasAmbiguous
    /\ pc \in { "emit", "compile", "done" } =>
         \A T \in TriggerFiles :
           /\ T.name \in DOMAIN special_files
           /\ Len(special_files[T.name]) = Len(SpecialOrderFiles[T.name])
           /\ \A k \in DOMAIN SpecialOrderFiles[T.name] :
                Named(SpecialOrderFiles[T.name][k]) = { special_files[T.name][k] }

\* C8 witness: a run ended by a follower name that two files bear
C8_Witness ==
    /\ pc = "aborted"
    /\ err = "AmbiguousChainMember"
    /\ ~HasUnresolved

\* ---------------------------------------------------------------------- C9
\* C9: in a successful run the blocks the tier loop copied during one tier
\* stand in ascending order of path; Wagons/A.pnml stands before
\* Wagons/B.pnml.
C9_TierBlocksAscending ==
    Succeeded =>
      /\ \A i, j \in DOMAIN nml_file :
           (i < j /\ nml_file[i].via = "tier" /\ nml_file[j].via = "tier"
                  /\ nml_file[i].tier = nml_file[j].tier)
              => PathLess(nml_file[i].file, nml_file[j].file)
      /\ \A i \in Positions(File(<< "Wagons" >>, "A.pnml")) :
           \A j \in Positions(File(<< "Wagons" >>, "B.pnml")) : i < j

\* C9 witness: a successful run over Wagons/A.pnml and Wagons/B.pnml and a
\* third fragment of the Normal tier
C9_Witness ==
    /\ Succeeded
    /\ Positions(File(<< "Wagons" >>, "A.pnml")) # {}
    /\ Positions(File(<< "Wagons" >>, "B.pnml")) # {}
    /\ Cardinality({ i \in DOMAIN nml_file :
                       nml_file[i].via = "tier" /\ nml_file[i].tier = "Normal" }) >= 3

\* --------------------------------------------------------------------- C10
\* C10 (as claimed): the directories main works on are the ones of the
\* command line.
C10_DirectoriesFromCommandLine ==
    pc # "start" =>
      /\ src_directory = args.src_dir
      /\ lang_directory = args.lang_dir
      /\ gfx_directory = args.gfx_dir
      /\ (compiled.called /\ has_lang_dir) => compiled.parameters[2] = args.lang_dir


\* --------------------------------------------------------------------- C11
\* C11 (as claimed): a file that bears a key file's name is in no tier's
\* list, wherever it lies in the tree, and in a successful run every block
\* of such a file is one the loop over KeyFiles copied.
C11_KeyFileNamesNeverTiered ==
    /\ \A k \in Range(TierKeys) : \A f \in pnml_files[k] : f.name \notin KeyFileNames
    /\ Succeeded =>
         \A i \in DOMAIN nml_file :
           nml_file[i].file.name \in KeyFileNames => nml_file[i].via = "key"

====
